---- MODULE Spec2Model ----
(***************************************************************************)
(* Model of pylabel/automated_labeler.py: the AutomatedLabeler class.      *)
(*                                                                         *)
(* Strings that are scanned (post text, lexicon phrases, regex sources)    *)
(* are sequences of one-character strings, so that substring search, case  *)
(* folding and regex search are computed.  Category names and label tokens *)
(* are atomic strings.                                                     *)
(*                                                                         *)
(* severity_score is kept in half points (the code adds 0.5 to an int):    *)
(* Pts(n) is n score points.  Perspective probabilities are in hundredths  *)
(* (0.7 is 70).                                                            *)
(*                                                                         *)
(* pyahocorasick refuses iter() on an automaton without words, so every    *)
(* lexicon file of the model has at least one literal row.                 *)
(***************************************************************************)
EXTENDS Integers, Sequences, FiniteSets, TLC

\* ---------------------------------------------------------------- bounds
MaxTextLen == 3
MaxRows == 3

\* ------------------------------------------------- module-level constants
label_names ==
    { "sexual violence", "emotional coercion", "reputational coercion",
      "self harm", "trauma discussion", "fictional depiction",
      "traumatic news" }

CRITICAL_LABELS == { "sexual violence", "self harm" }

REVIEW_LABEL == "meta:needs-human-review"

Pts(n) == 2 * n

\* f"severity-level-{severity_level}"
SeverityLabel(level) ==
    CASE level = 1 -> "severity-level-1"
      [] level = 2 -> "severity-level-2"
      [] level = 3 -> "severity-level-3"
      [] OTHER     -> "severity-level-other"

SeverityLabels == { SeverityLabel(1), SeverityLabel(2), SeverityLabel(3) }

\* ------------------------------------------------------------ str.lower()
LowerChar(c) ==
    CASE c = "A" -> "a"
      [] c = "B" -> "b"
      [] OTHER   -> c

Lower(s) == [i \in 1..Len(s) |-> LowerChar(s[i])]

\* str.lower() on a category cell
LowerCategory(c) ==
    CASE c = "Self Harm" -> "self harm"
      [] OTHER           -> c

\* ------------------------------------------------------------ re (subset)
\* A regex source is a sequence of tokens: a letter matches itself, "."
\* matches any character, "(" opens a group that is never closed.
ReCompiles(pattern) == \A i \in 1..Len(pattern) : pattern[i] # "("

\* one token of a pattern compiled with re.IGNORECASE against one character
ReTokenMatches(tok, ch) == tok = "." \/ LowerChar(tok) = LowerChar(ch)

\* regex.search(content)
ReSearch(pattern, content) ==
    \E start \in 1..(Len(content) - Len(pattern) + 1) :
        \A i \in 1..Len(pattern) :
            ReTokenMatches(pattern[i], content[start + i - 1])

\* review_word in content
Contains(word, content) ==
    \E start \in 1..(Len(content) - Len(word) + 1) :
        SubSeq(content, start, start + Len(word) - 1) = word

\* the first invalid regex ends the loading
RECURSIVE LoadLexiconRowsStopAtInvalid(_, _, _, _)
LoadLexiconRowsStopAtInvalid(rows, literal_map, regex_list, warned) ==
    IF rows = <<>> THEN
        [literal_map |-> literal_map, regex_patterns |-> regex_list,
         warnings |-> warned]
    ELSE
        LET row == Head(rows)
            category == LowerCategory(row.category)
            phrase == row.phrase_or_pattern
        IN  IF row.is_regex THEN
                IF ReCompiles(phrase) THEN
                    LoadLexiconRowsStopAtInvalid(Tail(rows), literal_map,
                        Append(regex_list,
                               [pattern |-> phrase, category |-> category]),
                        warned)
                ELSE
                    [literal_map |-> literal_map,
                     regex_patterns |-> regex_list,
                     warnings |-> Append(warned, phrase)]
            ELSE
                LoadLexiconRowsStopAtInvalid(Tail(rows),
                    [p \in (DOMAIN literal_map) \cup {Lower(phrase)} |->
                        IF p = Lower(phrase) THEN category
                        ELSE literal_map[p]],
                    regex_list, warned)

\* ---------------------------------------------------------- load_lexicon
RECURSIVE LoadLexiconRows(_, _, _, _)
LoadLexiconRows(rows, literal_map, regex_list, warned) ==
    IF rows = <<>> THEN
        [literal_map |-> literal_map, regex_patterns |-> regex_list,
         warnings |-> warned]
    ELSE
        LET row == Head(rows)
            category == LowerCategory(row.category)
            phrase == row.phrase_or_pattern
        IN  IF row.is_regex THEN
                IF ReCompiles(phrase) THEN
                    LoadLexiconRows(Tail(rows), literal_map,
                        Append(regex_list,
                               [pattern |-> phrase, category |-> category]),
                        warned)
                ELSE
                    LoadLexiconRows(Tail(rows), literal_map, regex_list,
                                    Append(warned, phrase))
            ELSE
                LoadLexiconRows(Tail(rows),
                    [p \in (DOMAIN literal_map) \cup {Lower(phrase)} |->
                        IF p = Lower(phrase) THEN category
                        ELSE literal_map[p]],
                    regex_list, warned)

load_lexicon(rows) == LoadLexiconRows(rows, <<>>, <<>>, <<>>)

\* ---------------------------------------------------- load_review_keywords
RECURSIVE LoadReviewRows(_, _, _, _)
LoadReviewRows(rows, literal, regex, warned) ==
    IF rows = <<>> THEN
        [literal |-> literal, regex |-> regex, warnings |-> warned]
    ELSE
        LET row == Head(rows)
            phrase == row.phrase_or_pattern
        IN  IF row.is_regex THEN
                IF ReCompiles(phrase) THEN
                    LoadReviewRows(Tail(rows), literal,
                                   Append(regex, phrase), warned)
                ELSE
                    LoadReviewRows(Tail(rows), literal, regex,
                                   Append(warned, phrase))
            ELSE
                LoadReviewRows(Tail(rows), Append(literal, Lower(phrase)),
                               regex, warned)

load_review_keywords(rows) == LoadReviewRows(rows, <<>>, <<>>, <<>>)

\* -------------------------------------------------------- build_automaton
\* The automaton maps each word to its value (phrase, label).
build_automaton(lexicon_map) ==
    [phrase \in DOMAIN lexicon_map |->
        [phrase |-> phrase, category |-> lexicon_map[phrase]]]

RECURSIVE AutomatonIterLongestOnly(_, _, _, _)
AutomatonIterLongestOnly(A, content, end, len) ==
    IF end > Len(content) THEN <<>>
    ELSE IF len = 0
    THEN AutomatonIterLongestOnly(A, content, end + 1, end + 1)
    ELSE
        LET word == SubSeq(content, end - len + 1, end)
        IN  IF word \in DOMAIN A
            THEN << [end_idx |-> end - 1, value |-> A[word]] >>
                 \o AutomatonIterLongestOnly(A, content, end + 1, end + 1)
            ELSE AutomatonIterLongestOnly(A, content, end, len - 1)

\* Automaton.iter(content): every occurrence of every word, by end index,
\* the longer word first among those ending at the same index.
RECURSIVE AutomatonIterFrom(_, _, _, _)
AutomatonIterFrom(A, content, end, len) ==
    IF end > Len(content) THEN <<>>
    ELSE IF len = 0 THEN AutomatonIterFrom(A, content, end + 1, end + 1)
    ELSE
        LET word == SubSeq(content, end - len + 1, end)
        IN  (IF word \in DOMAIN A
             THEN << [end_idx |-> end - 1, value |-> A[word]] >>
             ELSE <<>>)
            \o AutomatonIterFrom(A, content, end, len - 1)

AutomatonIter(A, content) == AutomatonIterFrom(A, content, 1, 1)

\* ------------------------------------------------ get_perspective_scores
Attributes ==
    { "TOXICITY", "FLIRTATION", "INSULT", "THREAT", "SEVERE_TOXICITY",
      "INCOHERENT" }

FailedResponseKinds ==
    { "timeout", "connection_error", "http_error", "invalid_json" }

\* A JSON entry of attributeScores is <<>> when it has no "summaryScore"
\* and <<v>> when summaryScore.value is v.  An option is <<>> when the
\* attribute is absent from attributeScores and <<entry>> otherwise.
AttributeScores(tox, incoherent, flirtation) ==
    LET present == (IF tox = <<>> THEN {} ELSE {"TOXICITY"})
                   \cup (IF incoherent = <<>> THEN {} ELSE {"INCOHERENT"})
                   \cup (IF flirtation = <<>> THEN {} ELSE {"FLIRTATION"})
    IN  [a \in present |->
            CASE a = "TOXICITY"   -> tox[1]
              [] a = "INCOHERENT" -> incoherent[1]
              [] a = "FLIRTATION" -> flirtation[1]]

ToxicityOptions ==
    { <<>>, << <<>> >> } \cup { << <<v>> >> : v \in {29, 30, 60, 80, 81} }

IncoherentOptions == { << <<70>> >>, << <<71>> >> }

FlirtationOptions == { <<>>, << <<71>> >> }

\* What requests.post / raise_for_status / response.json() can produce.
Responses ==
    { [kind |-> k, attributeScores |-> <<>>] :
        k \in FailedResponseKinds \cup {"json_array"} }
    \cup
    { [kind |-> "json_object", attributeScores |-> AttributeScores(t, i, f)] :
        t \in ToxicityOptions, i \in IncoherentOptions,
        f \in FlirtationOptions }

ZeroScores == [a \in Attributes |-> 0]

get_perspective_scores(response) ==
    IF response.kind \in FailedResponseKinds THEN
        \* except RequestException / except ValueError
        [raised |-> "none", scores |-> ZeroScores]
    ELSE IF response.kind = "json_array" THEN
        \* scores_json.get on a list
        [raised |-> "AttributeError", scores |-> ZeroScores]
    ELSE IF \E a \in DOMAIN response.attributeScores :
                response.attributeScores[a] = <<>> THEN
        \* scores_json["attributeScores"][attr]["summaryScore"]
        [raised |-> "KeyError", scores |-> ZeroScores]
    ELSE
        [raised |-> "none",
         scores |-> [a \in Attributes |->
                        IF a \in DOMAIN response.attributeScores
                        THEN response.attributeScores[a][1]
                        ELSE 0]]

\* ---------------------------------------------------------- moderate_post
WeightCriticalTriple(category) ==
    IF category \in CRITICAL_LABELS THEN Pts(3) ELSE Pts(1)

\* 2 if category in CRITICAL_LABELS else 1
Weight(category) == IF category \in CRITICAL_LABELS THEN Pts(2) ELSE Pts(1)

\* The locals of one call.  hits records every execution of
\* "severity_score += weight"; review_tested every review pattern tested.
NewLocals ==
    [labels |-> {}, matches_found |-> {}, severity_score |-> 0,
     hits |-> <<>>, review_tested |-> <<>>]

CountMatch(loc, pattern_id, category, origin) ==
    [loc EXCEPT
        !.labels = @ \cup {category},
        !.matches_found = @ \cup {pattern_id},
        !.severity_score = @ + Weight(category),
        !.hits = Append(@, [pattern_id |-> pattern_id,
                            category |-> category,
                            origin |-> origin])]

LiteralCountsUngated(loc, phrase, category) ==
    phrase \notin loc.matches_found

LiteralCountsEveryOccurrence(loc, phrase, category) ==
    category \in label_names

\* the test of line 151
LiteralCounts(loc, phrase, category) ==
    category \in label_names /\ phrase \notin loc.matches_found

\* for end_idx, (phrase, category) in self.phrase_automaton.iter(content)
RECURSIVE ScanLiterals(_, _)
ScanLiterals(found, loc) ==
    IF found = <<>> THEN loc
    ELSE
        LET phrase == Head(found).value.phrase
            category == Head(found).value.category
        IN  IF LiteralCounts(loc, phrase, category)
            THEN ScanLiterals(Tail(found),
                              CountMatch(loc, phrase, category, "literal"))
            ELSE ScanLiterals(Tail(found), loc)

\* the tests of lines 158-159
RegexCounts(loc, regex, content) ==
    /\ ReSearch(regex.pattern, content)
    /\ regex.pattern \notin loc.matches_found
    /\ regex.category \in label_names

\* for regex, category in self.regex_patterns
RECURSIVE ScanRegexes(_, _, _)
ScanRegexes(patterns, content, loc) ==
    IF patterns = <<>> THEN loc
    ELSE
        IF RegexCounts(loc, Head(patterns), content)
        THEN ScanRegexes(Tail(patterns), content,
                         CountMatch(loc, Head(patterns).pattern,
                                    Head(patterns).category, "regex"))
        ELSE ScanRegexes(Tail(patterns), content, loc)

FlagReviewScoreOnly(loc) ==
    [loc EXCEPT !.severity_score = @ - Pts(1)]

FlagReviewDouble(loc) ==
    [loc EXCEPT !.labels = @ \cup {REVIEW_LABEL},
                !.severity_score = @ - Pts(2)]

FlagReview(loc) ==
    [loc EXCEPT !.labels = @ \cup {REVIEW_LABEL},
                !.severity_score = @ - Pts(1)]

\* for review_regex in self.review_regexes
RECURSIVE ReviewRegexLoop(_, _, _)
ReviewRegexLoop(regexes, content, loc) ==
    IF regexes = <<>> THEN loc
    ELSE
        LET tested == [loc EXCEPT
                          !.review_tested = Append(@, Head(regexes))]
        IN  IF ReSearch(Head(regexes), content)
            THEN FlagReview(tested)
            ELSE ReviewRegexLoop(Tail(regexes), content, tested)

RECURSIVE ReviewLiteralLoopNoBreak(_, _, _, _)
ReviewLiteralLoopNoBreak(words, regexes, content, loc) ==
    IF words = <<>> THEN ReviewRegexLoop(regexes, content, loc)
    ELSE
        LET tested == [loc EXCEPT
                          !.review_tested = Append(@, Head(words))]
        IN  IF Contains(Head(words), content)
            THEN ReviewLiteralLoopNoBreak(Tail(words), regexes, content,
                                          FlagReview(tested))
            ELSE ReviewLiteralLoopNoBreak(Tail(words), regexes, content,
                                          tested)

\* for review_word in self.review_literals; the regexes run only when no
\* literal set needs_review
RECURSIVE ReviewLiteralLoop(_, _, _, _)
ReviewLiteralLoop(words, regexes, content, loc) ==
    IF words = <<>> THEN ReviewRegexLoop(regexes, content, loc)
    ELSE
        LET tested == [loc EXCEPT
                          !.review_tested = Append(@, Head(words))]
        IN  IF Contains(Head(words), content)
            THEN FlagReview(tested)
            ELSE ReviewLiteralLoop(Tail(words), regexes, content, tested)

\* lines 185-188
HumorAdjust(loc, scores) ==
    IF scores["INCOHERENT"] > 70 \/ scores["FLIRTATION"] > 70
    THEN [loc EXCEPT !.severity_score = @ - Pts(1),
                     !.labels = @ \cup {REVIEW_LABEL}]
    ELSE loc

ToxicityAdjustReversed(loc, scores) ==
    LET toxicity == scores["TOXICITY"]
    IN  IF toxicity > 80 THEN
            [loc EXCEPT !.severity_score = @ - Pts(1)]
        ELSE IF toxicity >= 60 THEN
            [loc EXCEPT !.severity_score = @ - 1]
        ELSE IF toxicity < 30 THEN
            [loc EXCEPT !.severity_score = @ + 1]
        ELSE loc

\* lines 191-197; 0.5 is one half point
ToxicityAdjust(loc, scores) ==
    LET toxicity == scores["TOXICITY"]
    IN  IF toxicity > 80 THEN
            [loc EXCEPT !.severity_score = @ + Pts(1)]
        ELSE IF toxicity >= 60 THEN
            [loc EXCEPT !.severity_score = @ + 1]
        ELSE IF toxicity < 30 THEN
            [loc EXCEPT !.severity_score = @ - 1]
        ELSE loc

SeverityLevelExclusive(severity_score) ==
    IF severity_score > Pts(6) THEN 3
    ELSE IF severity_score > Pts(3) THEN 2
    ELSE 1

SeverityLevelShifted(severity_score) ==
    IF severity_score >= Pts(6) THEN 4
    ELSE IF severity_score >= Pts(3) THEN 3
    ELSE 2

SeverityLevelInverted(severity_score) ==
    IF severity_score >= Pts(6) THEN 1
    ELSE IF severity_score >= Pts(3) THEN 2
    ELSE 3

\* lines 200-205
SeverityLevel(severity_score) ==
    IF severity_score >= Pts(6) THEN 3
    ELSE IF severity_score >= Pts(3) THEN 2
    ELSE 1

SeverityAssignedAlways(loc) == TRUE

SeverityAssignedOnCategory(loc) == loc.labels \cap label_names # {}

\* if labels:  (line 180)
SeverityAssigned(loc) == loc.labels # {}

\* The whole of moderate_post on one post text with one answer of the
\* Perspective service: the record of the call.
Moderate(automaton, regexes, rev_literals, rev_regexes, text, response) ==
    LET content  == Lower(text)
        scanned  == ScanRegexes(regexes, content,
                        ScanLiterals(AutomatonIter(automaton, content),
                                     NewLocals))
        reviewed == ReviewLiteralLoop(rev_literals, rev_regexes, content,
                                      scanned)
        called   == SeverityAssigned(reviewed)
        answer   == get_perspective_scores(response)
        adjusted == ToxicityAdjust(HumorAdjust(reviewed, answer.scores),
                                   answer.scores)
        raised   == IF called THEN answer.raised ELSE "none"
        level    == IF called /\ raised = "none"
                    THEN SeverityLevel(adjusted.severity_score) ELSE 0
        final    == IF called /\ raised = "none" THEN adjusted ELSE reviewed
    IN  [text           |-> text,
         content        |-> content,
         matches_found  |-> scanned.matches_found,
         hits           |-> scanned.hits,
         review_tested  |-> reviewed.review_tested,
         base_score     |-> scanned.severity_score,
         review_score   |-> reviewed.severity_score,
         severity_score |-> final.severity_score,
         perspective    |-> IF called THEN <<response>> ELSE <<>>,
         raised         |-> raised,
         severity_level |-> level,
         labels         |-> IF raised # "none" THEN {}
                            ELSE IF level = 0 THEN final.labels
                            ELSE final.labels \cup {SeverityLabel(level)}]

\* ------------------------------------------------------------------ state
VARIABLES
    lexicon_csv,       \* rows of lexicon.csv
    meta_label_csv,    \* rows of meta-label.csv
    literal_lexicon,   \* self.literal_lexicon: phrase -> category
    regex_patterns,    \* self.regex_patterns: list of (regex, category)
    phrase_automaton,  \* self.phrase_automaton
    review_literals,   \* self.review_literals
    review_regexes,    \* self.review_regexes
    warnings,          \* the [WARN] lines printed while loading
    calls,             \* the calls of moderate_post made so far, in order
    threads            \* the frames of the calls running concurrently

vars == << lexicon_csv, meta_label_csv, literal_lexicon, regex_patterns,
           phrase_automaton, review_literals, review_regexes, warnings,
           calls, threads >>

index == << literal_lexicon, regex_patterns, phrase_automaton,
            review_literals, review_regexes >>

\* ----------------------------------------------------------------- inputs
TextChars == { "a", "B" }

Texts == UNION { [1..n -> TextChars] : n \in 0..MaxTextLen }

LexiconRows ==
    << [category |-> "Self Harm", phrase_or_pattern |-> <<"a">>,
        is_regex |-> FALSE],
       [category |-> "sexual violence", phrase_or_pattern |-> <<"B">>,
        is_regex |-> FALSE],
       [category |-> "survivor discussion", phrase_or_pattern |-> <<"b">>,
        is_regex |-> FALSE],
       [category |-> "traumatic news", phrase_or_pattern |-> <<"a", "b">>,
        is_regex |-> FALSE],
       [category |-> "self harm", phrase_or_pattern |-> <<"a">>,
        is_regex |-> TRUE],
       [category |-> "emotional coercion", phrase_or_pattern |-> <<"a">>,
        is_regex |-> TRUE],
       [category |-> "sexual violence", phrase_or_pattern |-> <<".", "b">>,
        is_regex |-> TRUE],
       [category |-> "survivor discussion", phrase_or_pattern |-> <<"B">>,
        is_regex |-> TRUE],
       [category |-> "self harm", phrase_or_pattern |-> <<"(", "a">>,
        is_regex |-> TRUE] >>

ReviewRows ==
    << [phrase_or_pattern |-> <<"B">>, is_regex |-> FALSE],
       [phrase_or_pattern |-> <<"A", ".">>, is_regex |-> TRUE] >>

RECURSIVE SelectRows(_, _, _)
SelectRows(rows, chosen, i) ==
    IF i > Len(rows) THEN <<>>
    ELSE (IF i \in chosen THEN << rows[i] >> ELSE <<>>)
         \o SelectRows(rows, chosen, i + 1)

LexiconFiles ==
    { SelectRows(LexiconRows, chosen, 1) :
        chosen \in { c \in SUBSET (1..Len(LexiconRows)) :
                        /\ Cardinality(c) <= MaxRows
                        /\ \E i \in c : ~LexiconRows[i].is_regex } }

ReviewFiles ==
    { SelectRows(ReviewRows, chosen, 1) :
        chosen \in SUBSET (1..Len(ReviewRows)) }

\* ------------------------------------------------------------- __init__
Threads == { "t1", "t2" }

\* the frame of a call that has not started: pc, the locals, and what the
\* call consumed and produced; overlapped records that the call took a
\* step while another call was in progress
IdleFrame ==
    [pc |-> "idle", text |-> <<>>, content |-> <<>>, loc |-> NewLocals,
     perspective |-> <<>>, raised |-> "none", severity_level |-> 0,
     labels |-> {}, overlapped |-> FALSE]

Construct(lexicon_rows, review_rows) ==
    LET lex == load_lexicon(lexicon_rows)
        rev == load_review_keywords(review_rows)
    IN  /\ lexicon_csv = lexicon_rows
        /\ meta_label_csv = review_rows
        /\ literal_lexicon = lex.literal_map
        /\ regex_patterns = lex.regex_patterns
        /\ phrase_automaton = build_automaton(lex.literal_map)
        /\ review_literals = rev.literal
        /\ review_regexes = rev.regex
        /\ warnings = lex.warnings \o rev.warnings
        /\ calls = <<>>
        /\ threads = [t \in Threads |-> IdleFrame]

Init ==
    \E lexicon_rows \in LexiconFiles, review_rows \in ReviewFiles :
        Construct(lexicon_rows, review_rows)

\* matches_found kept on the instance instead of in the call: a pattern
\* counted by an earlier call is skipped by the later ones
ModeratePostSharedMatches(text, response) ==
    LET seen == UNION { calls[i].matches_found : i \in 1..Len(calls) }
        unseen_regexes == SelectSeq(regex_patterns,
                                    LAMBDA r : r.pattern \notin seen)
    IN  /\ calls' = Append(calls,
                      Moderate([p \in (DOMAIN phrase_automaton) \ seen |->
                                   phrase_automaton[p]],
                               unseen_regexes, review_literals,
                               review_regexes, text, response))
        /\ UNCHANGED << lexicon_csv, meta_label_csv, literal_lexicon,
                        regex_patterns, phrase_automaton, review_literals,
                        review_regexes, warnings, threads >>

\* ---------------------------------------------------------- moderate_post
ModeratePost(text, response) ==
    /\ calls' = Append(calls,
                    Moderate(phrase_automaton, regex_patterns,
                             review_literals, review_regexes,
                             text, response))
    /\ UNCHANGED << lexicon_csv, meta_label_csv, literal_lexicon,
                    regex_patterns, phrase_automaton, review_literals,
                    review_regexes, warnings, threads >>

\* one call per behaviour
Next ==
    \E text \in Texts, response \in Responses :
        /\ Len(calls) = 0
        /\ ModeratePost(text, response)

Spec == Init /\ [][Next]_vars

\* Lexicon files with regex rows that do not compile, before and after
\* rows that load.
LexiconRowsLoad ==
    << LexiconRows[1],
       LexiconRows[9],
       LexiconRows[7],
       LexiconRows[4],
       [category |-> "traumatic news", phrase_or_pattern |-> <<"b", "(">>,
        is_regex |-> TRUE],
       LexiconRows[2] >>

ReviewRowsLoad ==
    << ReviewRows[1],
       [phrase_or_pattern |-> <<"(", "b">>, is_regex |-> TRUE],
       ReviewRows[2] >>

InvalidRow(row) == row.is_regex /\ ~ReCompiles(row.phrase_or_pattern)

InitLoad ==
    \E chosen \in { c \in SUBSET (1..Len(LexiconRowsLoad)) :
                        /\ Cardinality(c) <= MaxRows
                        /\ \E i \in c : ~LexiconRowsLoad[i].is_regex
                        /\ \E i \in c : InvalidRow(LexiconRowsLoad[i]) },
       reviewed \in SUBSET (1..Len(ReviewRowsLoad)) :
        Construct(SelectRows(LexiconRowsLoad, chosen, 1),
                  SelectRows(ReviewRowsLoad, reviewed, 1))

SpecLoad == InitLoad /\ [][Next]_vars

\* ------------------------------------- moderate_post, statement by statement
\* Concurrent calls on one labeler: each thread runs moderate_post once, a
\* step being one block of statements.
Running(t) == threads[t].pc \notin {"idle", "done", "raised"}

Overlaps(t) == \E u \in Threads \ {t} : Running(u)

StepTo(t, frame) ==
    /\ threads' = [threads EXCEPT
                      ![t] = [frame EXCEPT
                                 !.overlapped = @ \/ Overlaps(t)]]
    /\ UNCHANGED << lexicon_csv, meta_label_csv, literal_lexicon,
                    regex_patterns, phrase_automaton, review_literals,
                    review_regexes, warnings, calls >>

\* lines 142-147
Begin(t, text) ==
    /\ threads[t].pc = "idle"
    /\ StepTo(t, [threads[t] EXCEPT
                     !.pc = "scan_literals",
                     !.text = text,
                     !.content = Lower(text),
                     !.loc = NewLocals])

\* matches_found kept on the instance: the scan sees what the other calls
\* have counted
ScanLiteralsStepShared(t) ==
    /\ threads[t].pc = "scan_literals"
    /\ LET shared == UNION { threads[u].loc.matches_found : u \in Threads }
       IN  StepTo(t, [threads[t] EXCEPT
                        !.pc = "scan_regexes",
                        !.loc = ScanLiterals(
                                    AutomatonIter(phrase_automaton,
                                                  threads[t].content),
                                    [@ EXCEPT !.matches_found = shared])])

\* lines 149-154
ScanLiteralsStep(t) ==
    /\ threads[t].pc = "scan_literals"
    /\ StepTo(t, [threads[t] EXCEPT
                     !.pc = "scan_regexes",
                     !.loc = ScanLiterals(
                                 AutomatonIter(phrase_automaton,
                                               threads[t].content), @)])

\* lines 156-162
ScanRegexesStep(t) ==
    /\ threads[t].pc = "scan_regexes"
    /\ StepTo(t, [threads[t] EXCEPT
                     !.pc = "review",
                     !.loc = ScanRegexes(regex_patterns,
                                         threads[t].content, @)])

\* lines 164-177
ReviewStep(t) ==
    /\ threads[t].pc = "review"
    /\ StepTo(t, [threads[t] EXCEPT
                     !.pc = "adjust",
                     !.loc = ReviewLiteralLoop(review_literals,
                                               review_regexes,
                                               threads[t].content, @)])

\* lines 179-206 when labels is empty
SkipAdjustStep(t) ==
    /\ threads[t].pc = "adjust"
    /\ ~SeverityAssigned(threads[t].loc)
    /\ StepTo(t, [threads[t] EXCEPT !.pc = "return"])

\* lines 179-206 when labels is not empty
AdjustStep(t, response) ==
    /\ threads[t].pc = "adjust"
    /\ SeverityAssigned(threads[t].loc)
    /\ LET answer   == get_perspective_scores(response)
           adjusted == ToxicityAdjust(
                           HumorAdjust(threads[t].loc, answer.scores),
                           answer.scores)
           level    == SeverityLevel(adjusted.severity_score)
       IN  IF answer.raised # "none"
           THEN StepTo(t, [threads[t] EXCEPT
                             !.pc = "raised",
                             !.perspective = <<response>>,
                             !.raised = answer.raised])
           ELSE StepTo(t, [threads[t] EXCEPT
                             !.pc = "return",
                             !.perspective = <<response>>,
                             !.severity_level = level,
                             !.loc = [adjusted EXCEPT
                                         !.labels =
                                             @ \cup {SeverityLabel(level)}]])

\* line 208
ReturnStep(t) ==
    /\ threads[t].pc = "return"
    /\ StepTo(t, [threads[t] EXCEPT
                     !.pc = "done",
                     !.labels = threads[t].loc.labels])

ConcResponses ==
    { [kind |-> "timeout", attributeScores |-> <<>>],
      [kind |-> "json_array", attributeScores |-> <<>>],
      [kind |-> "json_object",
       attributeScores |->
           AttributeScores(<< <<81>> >>, << <<71>> >>, <<>>)] }

ConcLexiconChoices == { {1, 2, 7} }

InitConc ==
    \E chosen \in ConcLexiconChoices :
        Construct(SelectRows(LexiconRows, chosen, 1), ReviewRows)

NextConc ==
    \E t \in Threads :
        \/ \E text \in Texts : Begin(t, text)
        \/ ScanLiteralsStep(t)
        \/ ScanRegexesStep(t)
        \/ ReviewStep(t)
        \/ SkipAdjustStep(t)
        \/ \E response \in ConcResponses : AdjustStep(t, response)
        \/ ReturnStep(t)

SpecConc == InitConc /\ [][NextConc]_vars

\* Two calls in sequence on one labeler; the Perspective service answers the
\* second call as it answered the first.
SeqLexiconChoices == { {1, 2}, {1, 2, 7}, {1, 4, 5}, {2, 3, 8} }

InitSeq ==
    \E chosen \in SeqLexiconChoices, review_rows \in {<<>>, ReviewRows} :
        Construct(SelectRows(LexiconRows, chosen, 1), review_rows)

NextSeq ==
    \E text \in Texts, response \in Responses :
        /\ Len(calls) <= 1
        /\ (Len(calls) = 1 /\ calls[1].perspective # <<>>)
              => response = calls[1].perspective[1]
        /\ ModeratePost(text, response)

SpecSeq == InitSeq /\ [][NextSeq]_vars

\* ================================================================ claims
Returned(call) == call.raised = "none"

PhraseIn(content) ==
    { p \in DOMAIN literal_lexicon : Contains(p, content) }

RegexIn(content) ==
    { i \in 1..Len(regex_patterns) :
        ReSearch(regex_patterns[i].pattern, content) }

ReviewMatches(content) ==
    \/ \E i \in 1..Len(review_literals) :
          Contains(review_literals[i], content)
    \/ \E i \in 1..Len(review_regexes) :
          ReSearch(review_regexes[i], content)

RECURSIVE SumWeights(_)
SumWeights(hits) ==
    IF hits = <<>> THEN 0
    ELSE Weight(Head(hits).category) + SumWeights(Tail(hits))

CallsMade == { calls[i] : i \in 1..Len(calls) }

\* C1: whenever the lower-cased text contains a literal phrase whose
\* category in the literal map is in the allowed vocabulary, the label set
\* returned by moderate_post contains that category.
C1_LiteralCategoryReported ==
    \A call \in CallsMade :
        Returned(call) =>
            \A p \in PhraseIn(call.content) :
                literal_lexicon[p] \in label_names
                    => literal_lexicon[p] \in call.labels

\* two allowed literal phrases overlap in the text
C1_Witness ==
    \E call \in CallsMade :
        /\ Returned(call)
        /\ \E p, q \in PhraseIn(call.content) :
              /\ p # q
              /\ literal_lexicon[p] \in label_names
              /\ literal_lexicon[q] \in label_names
              /\ Len(p) < Len(q)
              /\ literal_lexicon[p] # literal_lexicon[q]
              /\ literal_lexicon[p] \in call.labels

\* C2 (as stated): a text that contains no literal phrase and matches no
\* regex of the lexicon gets exactly the label set {severity-level-1}.
C2_Original ==
    \A call \in CallsMade :
        (Returned(call) /\ PhraseIn(call.content) = {}
            /\ RegexIn(call.content) = {})
        => call.labels = {SeverityLabel(1)}

\* C2 (amended): a text that contains no literal phrase and matches no regex
\* of the lexicon gets no category label; the returned set is empty (no
\* severity label) when no review pattern matches either, and it is exactly
\* {meta:needs-human-review, severity-level-1} when a review pattern matches.
C2_NoMatchNoSeverity ==
    \A call \in CallsMade :
        (Returned(call) /\ PhraseIn(call.content) = {}
            /\ RegexIn(call.content) = {})
        => /\ call.labels \cap label_names = {}
           /\ ~ReviewMatches(call.content) => call.labels = {}
           /\ ReviewMatches(call.content)
                 => call.labels = {REVIEW_LABEL, SeverityLabel(1)}

C2_Witness ==
    \E call \in CallsMade :
        /\ Returned(call)
        /\ call.content # <<>>
        /\ PhraseIn(call.content) = {}
        /\ RegexIn(call.content) = {}
        /\ ~ReviewMatches(call.content)
        /\ Len(regex_patterns) > 0
        /\ call.labels = {}

\* C3: every returned label is an allowed category, a severity-level-N
\* label or the review marker; a category outside the vocabulary is never
\* counted and never adds to the severity score.
C3_OnlyAllowedLabels ==
    \A call \in CallsMade :
        /\ call.labels \subseteq
              label_names \cup SeverityLabels \cup {REVIEW_LABEL}
        /\ \A i \in 1..Len(call.hits) :
              call.hits[i].category \in label_names
        /\ call.base_score = SumWeights(call.hits)

\* the text matches a literal and a regex whose categories are not allowed
C3_Witness ==
    \E call \in CallsMade :
        /\ Returned(call)
        /\ \E p \in PhraseIn(call.content) :
              literal_lexicon[p] \notin label_names
        /\ \E i \in RegexIn(call.content) :
              regex_patterns[i].category \notin label_names
        /\ call.labels # {}

\* C4: when the external signal call fails (timeout, network error, HTTP
\* error, unparseable response) the severity level of the result is the
\* level of the score before the external adjustment.
C4_FailureLeavesLevel ==
    \A call \in CallsMade :
        (call.perspective # <<>>
            /\ call.perspective[1].kind \in FailedResponseKinds)
        => call.severity_level = SeverityLevel(call.review_score)

\* C5: whatever the external signal call produces, moderate_post returns a
\* label set and raises nothing.
C5_NeverRaises ==
    \A call \in CallsMade : Returned(call)

\* C6: a second call on the same text with the same external signal returns
\* the same label set as the first, and no call changes the literal map, the
\* automaton, the regex list or the review lists.
C6_Idempotent ==
    [][ /\ index' = index
        /\ (Len(calls') = 2
              /\ calls'[1].text = calls'[2].text
              /\ calls'[1].perspective = calls'[2].perspective)
           => /\ calls'[2].labels = calls'[1].labels
              /\ calls'[2].raised = calls'[1].raised ]_vars

C6_Witness ==
    /\ Len(calls) = 2
    /\ calls[1].text = calls[2].text
    /\ calls[1].perspective = calls[2].perspective
    /\ Returned(calls[2])
    /\ calls[2].hits # <<>>
    /\ calls[2].labels = calls[1].labels

\* category that counts for a pattern_id: the literal map's if the phrase
\* is an allowed literal found in the text, else that of the first
\* matching regex row with this source and an allowed category
FirstCategory(pattern_id, content) ==
    IF /\ pattern_id \in PhraseIn(content)
       /\ literal_lexicon[pattern_id] \in label_names
    THEN literal_lexicon[pattern_id]
    ELSE LET rows == { i \in RegexIn(content) :
                          /\ regex_patterns[i].pattern = pattern_id
                          /\ regex_patterns[i].category \in label_names }
             first == CHOOSE i \in rows : \A j \in rows : i <= j
         IN  regex_patterns[first].category

RECURSIVE SumFirstWeights(_, _)
SumFirstWeights(ids, content) ==
    IF ids = {} THEN 0
    ELSE LET id == CHOOSE x \in ids : TRUE
         IN  Weight(FirstCategory(id, content))
             + SumFirstWeights(ids \ {id}, content)

Occurrences(word, content) ==
    { start \in 1..(Len(content) - Len(word) + 1) :
        SubSeq(content, start, start + Len(word) - 1) = word }

\* C7: within one call every pattern_id adds its weight at most once,
\* however often the phrase occurs and however many rows share the source;
\* the weight added is that of the first association.
C7_CountedOnce ==
    \A call \in CallsMade :
        /\ \A i, j \in 1..Len(call.hits) :
              i # j => call.hits[i].pattern_id # call.hits[j].pattern_id
        /\ \A i \in 1..Len(call.hits) :
              /\ call.hits[i].pattern_id \in call.matches_found
              /\ call.hits[i].category =
                    FirstCategory(call.hits[i].pattern_id, call.content)
        /\ call.base_score =
              SumFirstWeights(call.matches_found, call.content)

\* a counted literal occurs twice and a regex row has the same source
C7_Witness ==
    \E call \in CallsMade :
        \E p \in call.matches_found :
            /\ p \in DOMAIN literal_lexicon
            /\ Cardinality(Occurrences(p, call.content)) >= 2
            /\ \E i \in RegexIn(call.content) :
                  /\ regex_patterns[i].pattern = p
                  /\ regex_patterns[i].category \in label_names
            /\ call.base_score = Weight(literal_lexicon[p])

HitSet(call) ==
    { [pattern_id |-> call.hits[i].pattern_id,
       category |-> call.hits[i].category] : i \in 1..Len(call.hits) }

ReviewFlagged(call) == call.review_score # call.base_score

\* one call's match set is the other's plus critical-category matches, the
\* review outcome and the external signal being the same
MoreCritical(small, large) ==
    /\ Returned(small) /\ Returned(large)
    /\ small.severity_level # 0 /\ large.severity_level # 0
    /\ ReviewFlagged(small) = ReviewFlagged(large)
    /\ small.perspective = large.perspective
    /\ HitSet(small) \subseteq HitSet(large)
    /\ \A h \in HitSet(large) \ HitSet(small) :
          h.category \in CRITICAL_LABELS

\* C8: adding critical-category matches to a match set, with the review
\* outcome and the external signal unchanged, never lowers the severity
\* level.
C8_SeverityMonotone ==
    \A i, j \in 1..Len(calls) :
        MoreCritical(calls[i], calls[j])
            => calls[i].severity_level <= calls[j].severity_level

C8_Witness ==
    \E i, j \in 1..Len(calls) :
        /\ MoreCritical(calls[i], calls[j])
        /\ HitSet(calls[i]) # {}
        /\ HitSet(calls[i]) # HitSet(calls[j])
        /\ calls[i].severity_level = 1
        /\ calls[j].severity_level = 3

\* the Perspective service answered with a TOXICITY score
ExternalCallSucceeded(call) ==
    /\ call.perspective # <<>>
    /\ call.perspective[1].kind = "json_object"
    /\ "TOXICITY" \in DOMAIN call.perspective[1].attributeScores
    /\ Returned(call)

SingleCriticalLiteral(call) ==
    /\ Returned(call)
    /\ RegexIn(call.content) = {}
    /\ Cardinality(PhraseIn(call.content)) = 1
    /\ \A p \in PhraseIn(call.content) :
          literal_lexicon[p] \in CRITICAL_LABELS

\* C10 (as stated): a text whose only match is one literal phrase of a
\* critical category gets exactly {that category, severity-level-1}.
C10_Original ==
    \A call \in CallsMade :
        SingleCriticalLiteral(call) =>
            \A p \in PhraseIn(call.content) :
                call.labels = {literal_lexicon[p], SeverityLabel(1)}

\* C10 (amended): such a text gets that category and one severity label,
\* plus the review marker when a review pattern matches or the external
\* signal flags humor; the severity label is severity-level-1 unless the
\* toxicity is above 0.8 and neither review nor humor lowered the score, when
\* it is severity-level-2.  With no review match, no humor flag and toxicity
\* at most 0.8 the result is exactly {category, severity-level-1}.
C10_SingleCriticalLiteral ==
    \A call \in CallsMade :
        SingleCriticalLiteral(call) =>
            \A p \in PhraseIn(call.content) :
                LET scores == get_perspective_scores(
                                  call.perspective[1]).scores
                    lowered ==
                        \/ ReviewMatches(call.content)
                        \/ scores["INCOHERENT"] > 70
                        \/ scores["FLIRTATION"] > 70
                    raisedLevel == scores["TOXICITY"] > 80 /\ ~lowered
                IN  call.labels =
                        {literal_lexicon[p]}
                        \cup (IF lowered THEN {REVIEW_LABEL} ELSE {})
                        \cup (IF raisedLevel THEN {SeverityLabel(2)}
                              ELSE {SeverityLabel(1)})

C10_Witness ==
    \E call \in CallsMade :
        /\ SingleCriticalLiteral(call)
        /\ ~ReviewMatches(call.content)
        /\ Len(call.content) > 1
        /\ \A p \in PhraseIn(call.content) :
              call.labels = {literal_lexicon[p], SeverityLabel(1)}

\* the pattern_ids of the allowed-category patterns found in the text
AllowedIdsIn(content) ==
    { p \in PhraseIn(content) : literal_lexicon[p] \in label_names }
    \cup { regex_patterns[i].pattern :
             i \in { j \in RegexIn(content) :
                       regex_patterns[j].category \in label_names } }

\* C11: a text that matches a review pattern and at least one pattern of an
\* allowed category gets the review marker, the category of every matched
\* pattern (its first association) and a severity-level label.
C11_ReviewWithCategory ==
    \A call \in CallsMade :
        (Returned(call) /\ ReviewMatches(call.content)
            /\ AllowedIdsIn(call.content) # {})
        => /\ REVIEW_LABEL \in call.labels
           /\ \A id \in AllowedIdsIn(call.content) :
                 FirstCategory(id, call.content) \in call.labels
           /\ call.labels \cap SeverityLabels # {}

C11_Witness ==
    \E call \in CallsMade :
        /\ Returned(call)
        /\ ReviewMatches(call.content)
        /\ Cardinality(AllowedIdsIn(call.content)) >= 2
        /\ REVIEW_LABEL \in call.labels
        /\ call.perspective[1].kind = "json_object"
        /\ get_perspective_scores(call.perspective[1]).scores["INCOHERENT"]
              <= 70

\* the labels of a result that are neither a category nor the review marker
SeverityPart(call) == call.labels \ (label_names \cup {REVIEW_LABEL})

\* C14: a result holds at most one severity label, and a severity label it
\* holds is severity-level-1, -2 or -3, whatever the match set, the review
\* outcome and the external signal are.
C14_OneSeverityLabel ==
    \A call \in CallsMade :
        /\ Cardinality(SeverityPart(call)) <= 1
        /\ SeverityPart(call) \subseteq SeverityLabels
        /\ call.severity_level \in 0..3

\* the highest level, reached with a review hit and an adjusting signal
C14_Witness ==
    \E call \in CallsMade :
        /\ ReviewFlagged(call)
        /\ call.severity_score # call.review_score
        /\ SeverityPart(call) = {SeverityLabel(3)}

\* the review patterns in the order the detector tries them
ReviewOrder == review_literals \o review_regexes

ReviewPatternMatches(k, content) ==
    IF k <= Len(review_literals)
    THEN Contains(review_literals[k], content)
    ELSE ReSearch(review_regexes[k - Len(review_literals)], content)

C16_ExternalAdjustment ==
    \A call \in CallsMade :
        (Returned(call) /\ call.perspective # <<>>) =>
            LET scores   == get_perspective_scores(
                                call.perspective[1]).scores
                humor    == \/ scores["INCOHERENT"] > 70
                            \/ scores["FLIRTATION"] > 70
                humorBy  == IF humor THEN 0 - Pts(1) ELSE 0
                toxBy    == call.severity_score - call.review_score
                                - humorBy
            IN  /\ scores["TOXICITY"] > 80 => toxBy > 0
                /\ scores["TOXICITY"] < 30 => toxBy < 0
                /\ (scores["TOXICITY"] >= 30 /\ scores["TOXICITY"] < 60)
                      => toxBy = 0
                /\ humor => REVIEW_LABEL \in call.labels
                /\ call.severity_level = SeverityLevel(call.severity_score)

\* high toxicity lifts a score of 5 over the threshold of 6
C16_Witness ==
    \E call \in CallsMade :
        /\ Returned(call)
        /\ call.perspective # <<>>
        /\ call.perspective[1].kind = "json_object"
        /\ get_perspective_scores(call.perspective[1]).scores["TOXICITY"]
              > 80
        /\ call.review_score = Pts(5)
        /\ call.severity_score = Pts(6)
        /\ call.severity_level = 3

\* C17: a result holds a severity label exactly when it holds a category
\* label or the review marker, and the external signal provider is called,
\* once, exactly when a category pattern counted or a review pattern
\* matched.
C17_SeverityIffLabel ==
    \A call \in CallsMade :
        /\ Returned(call) =>
              (SeverityPart(call) # {}
                  <=> call.labels \cap (label_names \cup {REVIEW_LABEL})
                          # {})
        /\ Len(call.perspective) <= 1
        /\ Len(call.perspective) = 1
              <=> (AllowedIdsIn(call.content) # {}
                      \/ ReviewMatches(call.content))

\* only a review pattern matches: the provider is called and the result is
\* the review marker with a severity label
C17_Witness ==
    \E call \in CallsMade :
        /\ Returned(call)
        /\ AllowedIdsIn(call.content) = {}
        /\ ReviewMatches(call.content)
        /\ Len(call.perspective) = 1
        /\ call.labels = {REVIEW_LABEL, SeverityLabel(1)}

\* C18: the final severity level is at most one level away from the level
\* of the weighted match score.
C18_NudgeNotOverride ==
    \A call \in CallsMade :
        call.severity_level # 0 =>
            /\ call.severity_level - SeverityLevel(call.base_score) <= 1
            /\ SeverityLevel(call.base_score) - call.severity_level <= 1

\* every downward adjustment at once on a score of 6: level 3 becomes 2
C18_Witness ==
    \E call \in CallsMade :
        /\ call.base_score = Pts(6)
        /\ call.severity_score = Pts(6) - Pts(2) - 1
        /\ call.severity_level = 2

LiteralRows(rows) == SelectSeq(rows, LAMBDA r : ~r.is_regex)

ValidRegexRows(rows) ==
    SelectSeq(rows, LAMBDA r : r.is_regex /\ ~InvalidRow(r))

InvalidRows(rows) == SelectSeq(rows, InvalidRow)

RowPatterns(rows) == [i \in 1..Len(rows) |-> rows[i].phrase_or_pattern]

\* C12: loading a lexicon with regex rows that do not compile does not
\* abort: each such row is dropped with a warning, every other row, before
\* or after it, is loaded, and matching uses exactly the valid patterns; the
\* same for the review lexicon.
C12_InvalidRegexSkipped ==
    LET literals == LiteralRows(lexicon_csv)
        regexes  == ValidRegexRows(lexicon_csv)
    IN  /\ warnings = RowPatterns(InvalidRows(lexicon_csv))
                      \o RowPatterns(InvalidRows(meta_label_csv))
        /\ regex_patterns =
              [i \in 1..Len(regexes) |->
                  [pattern |-> regexes[i].phrase_or_pattern,
                   category |-> LowerCategory(regexes[i].category)]]
        /\ DOMAIN literal_lexicon =
              { Lower(literals[i].phrase_or_pattern) :
                  i \in 1..Len(literals) }
        /\ \A i \in 1..Len(literals) :
              (\A j \in (i + 1)..Len(literals) :
                  Lower(literals[j].phrase_or_pattern)
                      # Lower(literals[i].phrase_or_pattern))
              => literal_lexicon[Lower(literals[i].phrase_or_pattern)]
                    = LowerCategory(literals[i].category)
        /\ DOMAIN phrase_automaton = DOMAIN literal_lexicon
        /\ review_literals =
              [i \in 1..Len(LiteralRows(meta_label_csv)) |->
                  Lower(LiteralRows(meta_label_csv)[i].phrase_or_pattern)]
        /\ review_regexes = RowPatterns(ValidRegexRows(meta_label_csv))
        /\ \A call \in CallsMade :
              /\ \A id \in call.matches_found :
                    \/ id \in DOMAIN literal_lexicon
                    \/ \E i \in 1..Len(regexes) :
                          regexes[i].phrase_or_pattern = id
              /\ call.matches_found = AllowedIdsIn(call.content)

\* both files have a row that loads before an invalid row and one after it,
\* and a call matched the regex of a row after the invalid one
C12_Witness ==
    /\ \E i, j, k \in 1..Len(lexicon_csv) :
          /\ i < j /\ j < k
          /\ ~InvalidRow(lexicon_csv[i])
          /\ InvalidRow(lexicon_csv[j])
          /\ lexicon_csv[k].is_regex /\ ~InvalidRow(lexicon_csv[k])
    /\ Len(meta_label_csv) = Len(ReviewRowsLoad)
    /\ Len(warnings) = 2
    /\ Len(regex_patterns) = 1
    /\ Len(review_regexes) = 1
    /\ \E call \in CallsMade :
          /\ regex_patterns[1].pattern \in call.matches_found
          /\ call.review_tested # <<>>

\* what the call of a frame returns when it runs alone
Alone(frame) ==
    Moderate(phrase_automaton, regex_patterns, review_literals,
             review_regexes, frame.text,
             IF frame.perspective = <<>>
             THEN [kind |-> "timeout", attributeScores |-> <<>>]
             ELSE frame.perspective[1])

\* C13: concurrent calls on one labeler do not interfere: a step of one
\* call changes neither the index nor the frame of another call, and under
\* every interleaving a call ends with the labels, match set and score (or
\* the exception) it has when run alone.
C13_NoInterference ==
    /\ [](\A t \in Threads :
            threads[t].pc \in {"done", "raised"} =>
                /\ threads[t].raised = Alone(threads[t]).raised
                /\ threads[t].pc = "done" =>
                      /\ threads[t].labels = Alone(threads[t]).labels
                      /\ threads[t].severity_level
                            = Alone(threads[t]).severity_level
                      /\ threads[t].loc.severity_score
                            = Alone(threads[t]).severity_score
                /\ threads[t].loc.hits = Alone(threads[t]).hits
                /\ Len(threads[t].perspective)
                      = Len(Alone(threads[t]).perspective))
    /\ [][ /\ index' = index
           /\ \E t \in Threads :
                 \A u \in Threads \ {t} : threads'[u] = threads[u] ]_vars

\* two calls on the same text, each stepping while the other was running,
\* have both returned a category
C13_Witness ==
    /\ \A t \in Threads :
          /\ threads[t].pc = "done"
          /\ threads[t].overlapped
          /\ threads[t].loc.hits # <<>>
    /\ threads["t1"].text = threads["t2"].text

====
